---- MODULE Spec2Model ----
(***************************************************************************)
(* Model of the shard manager server (package smserver):                   *)
(*   - smContainer: Add / Drop / Load / Close and the campaign goroutine   *)
(*   - Server: NewServer, run, the supervisor goroutine, Close, Done       *)
(*   - package server: serverContainer.campaignLeader,                     *)
(*     leaderStartDistribution, Add / Drop / Load / Close                  *)
(* Spec drives one smContainer; SpecServer drives one Server built from    *)
(* complete options; SpecNewServer calls NewServer with every combination  *)
(* of present and missing options; SpecElection lets two smContainer       *)
(* replicas campaign on one leader key; SpecLeader runs campaignLeader     *)
(* over every content of the service's shard node; SpecServerContainer     *)
(* drives one serverContainer.                                             *)
(***************************************************************************)
EXTENDS Integers, Sequences, FiniteSets, TLC

\* ---------------------------------------------------------------- bounds
MaxInst == 3
MaxCalls == 4
MaxRuns == 3
MaxCampaigns == 2
MaxIters == 3

\* ---------------------------------------------------------------- inputs
ShardIds == {"s1", "s2"}
Tasks == {"A", "B"}
Closers == {"k1", "k2"}
SrvClosers == {"a", "b"}
Replicas == {"r1", "r2"}
SpecIds == {"s1", "s2", "s3"}
Service == "svc"

\* values found under the shard node of the service: ShardSpec documents with
\* and without a containerId, and one that is not JSON
SpecValues == {"{}", "{\"containerId\":\"\"}", "{\"containerId\":\"c1\"}",
               "{\"containerId\":\"c2\"}", "not json"}

\* error values of apputil as the callers see them
ErrClosing == "ErrClosing"
ErrExist == "ErrExist"
ErrNotExist == "ErrNotExist"
errNotExist == "errNotExist"
ErrWrapped == "err"
Nil == "nil"

VARIABLES
    \* ---- smContainer
    closing,        \* smContainer.closing
    shards,         \* smContainer.shards: shard id -> index into insts
    insts,          \* every Shard instance NewShard has returned
    mu,             \* smContainer.mu: "free" or the Close caller holding it
    leaderShard,    \* smContainer.leaderShard: 0 (nil) or index into leaders
    leaders,        \* every smShard newSMShard has returned (close counts)
    ctxDone,        \* the stopper's context has been cancelled
    stopperCloses,  \* number of stopper.Close() calls
    campPc,         \* position of the campaign goroutine
    closePc,        \* position of each caller of smContainer.Close
    closeRet,       \* what smContainer.Close returned to each caller
    last,           \* the last completed Add / Drop / Load call and its result
    calls,          \* number of completed Add / Drop / Load calls
    \* ---- Server
    opts,           \* serverOptions after the ServerOption functions ran
    etcdPrefix,     \* the package-level prefix set by apputil.InitEtcdPrefix
    srvPc,          \* position of NewServer: "new", "run", "returned"
    srvRes,         \* what NewServer returned: "none", "ok" or the error
    runs,           \* number of run() invocations so far; run r creates components r
    runPc,          \* position inside run(): "idle", "container", "smContainer", "shardServer",
                    \* "closeSmContainer"
    runBy,          \* who called the run() in progress: "new" or "sup"
    conts,          \* apputil.Container of each run
    smcs,           \* smContainer of each run
    sss,            \* apputil.ShardServer of each run
    smContainerF,   \* Server.smContainer: 0 (nil) or the run that created it
    shardServerF,   \* Server.shardServer: 0 (nil) or the run that created it
    donec,          \* Server.donec: "open" or "closed"
    panicked,       \* the process died of a panic
    supPc,          \* position of the supervisor goroutine of NewServer
    supWatch,       \* the shardServer whose Done() the supervisor's select waits on
    sclosePc,       \* position of each caller of Server.Close
    \* ---- two smContainer replicas campaigning on one leader key
    eSess,          \* replica -> its Session (lease) is alive
    eQueue,         \* keys under the leader prefix, in creation order (head = leader)
    ePc,            \* replica -> position of its campaign goroutine
    eCtx,           \* replica -> the context of its campaign goroutine is cancelled
    eShard,         \* replica -> the smShard it created: "none", "open", "closed"
    eField,         \* replica -> smContainer.leaderShard is non-nil
    eRounds,        \* replica -> number of election.Campaign calls
    eClosePc,       \* replica -> position of its smContainer.Close
    \* ---- serverContainer (package server): campaignLeader
    lKv,            \* etcd: shard id -> stored ShardSpec value under the service's shard node
    lPc,            \* position of the campaignLeader goroutine
    lCtx,           \* the context of campaignLeader is cancelled
    lEq,            \* serverContainer.eq: the items pushed so far
    lOp,            \* serverContainer.op is set (newOperator succeeded)
    lMt,            \* number of `go c.mtWorker.Start()` executed
    lIter,          \* number of election.Campaign calls of campaignLeader
    lLog,           \* what the current loop iteration has done so far
    lLast,          \* what the last leaderStartDistribution call returned
    \* ---- serverContainer (package server): Add / Drop / Load / Close
    scMade,         \* serverContainer.shards has been made (a nil map otherwise)
    scShards,       \* serverContainer.shards: shard id -> index into scInsts
    scInsts,        \* every serverShard startShard has returned
    scStopped,      \* serverContainer.stopped
    scPanicked,     \* the process died of a panic
    scLast,         \* the last completed Add / Drop / Load call and its result
    scCalls         \* number of completed Add / Drop / Load calls

cvars == <<closing, shards, insts, mu, leaderShard, leaders, ctxDone,
           stopperCloses, campPc, closePc, closeRet, last, calls>>

svars == <<opts, etcdPrefix, srvPc, srvRes, runs, runPc, runBy, conts, smcs, sss,
           smContainerF, shardServerF, donec, panicked, supPc, supWatch, sclosePc>>

evars == <<eSess, eQueue, ePc, eCtx, eShard, eField, eRounds, eClosePc>>

lvars == <<lKv, lPc, lCtx, lEq, lOp, lMt, lIter, lLog, lLast>>

scvars == <<scMade, scShards, scInsts, scStopped, scPanicked, scLast, scCalls>>

xvars == <<evars, lvars, scvars>>

vars == <<cvars, svars, xvars>>

Range(f) == {f[x] : x \in DOMAIN f}

NoCall == [op |-> "none", id |-> "", task |-> "", res |-> "", load |-> ""]

\* newSMContainer: empty map, not closing, campaign goroutine wrapped by the stopper
InitContainer ==
    /\ closing = FALSE
    /\ shards = <<>>
    /\ insts = <<>>
    /\ mu = "free"
    /\ leaderShard = 0
    /\ leaders = <<>>
    /\ ctxDone = FALSE
    /\ stopperCloses = 0
    /\ campPc = "top"
    /\ closePc = [k \in Closers |-> "idle"]
    /\ closeRet = [k \in Closers |-> "none"]
    /\ last = NoCall
    /\ calls = 0

\* variant of CloseInst: the Close call on the instance is left out
CloseInstSkipped(s, i) == s

\* Shard.Close() on instance i, called from Add or Drop
CloseInst(s, i) == [s EXCEPT ![i].closes = @ + 1]

\* variant of TaskUnchanged: the comparison of the tasks never succeeds
TaskUnchangedNever(id, task) == FALSE

\* sd, ok := c.shards[id]; ok && sd.Spec().Task == spec.Task
TaskUnchanged(id, task) == id \in DOMAIN shards /\ insts[shards[id]].task = task

\* variant of Without: the entry is not deleted
WithoutKeeps(m, id) == m

\* delete(c.shards, id)
Without(m, id) == [x \in DOMAIN m \ {id} |-> m[x]]

\* shardWrapper.NewShard(c, spec): a fresh instance carrying spec (spec.Id = id)
NewInst(id, task) == [id |-> id, task |-> task, closes |-> 0, byClose |-> 0]

\* Shard.Load() of instance i: an opaque string, here one that names the instance
ShardLoad(i) == <<"load", i>>

Called(op, id, task, res, ld) ==
    /\ last' = [op |-> op, id |-> id, task |-> task, res |-> res, load |-> ld]
    /\ calls' = calls + 1

\* smContainer.Add(id, spec); ok: whether NewShard succeeds
Add(id, task, ok) ==
    /\ UNCHANGED <<svars, xvars>>
    /\ mu = "free"
    /\ calls < MaxCalls
    /\ IF closing
       THEN /\ Called("Add", id, task, ErrClosing, "")
            /\ UNCHANGED <<shards, insts>>
       ELSE IF TaskUnchanged(id, task)
       THEN /\ Called("Add", id, task, ErrExist, "")
            /\ UNCHANGED <<shards, insts>>
       ELSE LET closed == IF id \in DOMAIN shards
                          THEN CloseInst(insts, shards[id])
                          ELSE insts
            IN  IF ok
                THEN /\ Len(insts) < MaxInst
                     /\ insts' = Append(closed, NewInst(id, task))
                     /\ shards' = [x \in DOMAIN shards \cup {id} |->
                                      IF x = id THEN Len(insts) + 1 ELSE shards[x]]
                     /\ Called("Add", id, task, Nil, "")
                ELSE /\ insts' = closed
                     /\ shards' = shards
                     /\ Called("Add", id, task, ErrWrapped, "")
    /\ UNCHANGED <<closing, mu, leaderShard, leaders, ctxDone, stopperCloses,
                   campPc, closePc, closeRet>>

\* smContainer.Drop(id)
Drop(id) ==
    /\ UNCHANGED <<svars, xvars>>
    /\ mu = "free"
    /\ calls < MaxCalls
    /\ IF closing
       THEN /\ Called("Drop", id, "", ErrClosing, "")
            /\ UNCHANGED <<shards, insts>>
       ELSE IF id \notin DOMAIN shards
       THEN /\ Called("Drop", id, "", ErrNotExist, "")
            /\ UNCHANGED <<shards, insts>>
       ELSE /\ insts' = CloseInst(insts, shards[id])
            /\ shards' = Without(shards, id)
            /\ Called("Drop", id, "", Nil, "")
    /\ UNCHANGED <<closing, mu, leaderShard, leaders, ctxDone, stopperCloses,
                   campPc, closePc, closeRet>>

\* variant of Load: an absent id is answered with an empty load and no error
LoadAbsentIsNil(id) ==
    /\ UNCHANGED <<svars, xvars>>
    /\ mu = "free"
    /\ calls < MaxCalls
    /\ IF closing
       THEN Called("Load", id, "", ErrClosing, "")
       ELSE IF id \notin DOMAIN shards
       THEN Called("Load", id, "", Nil, "")
       ELSE Called("Load", id, "", Nil, ShardLoad(shards[id]))
    /\ UNCHANGED <<closing, shards, insts, mu, leaderShard, leaders, ctxDone,
                   stopperCloses, campPc, closePc, closeRet>>

\* variant of Load: the closing check is left out
LoadIgnoresClosing(id) ==
    /\ UNCHANGED <<svars, xvars>>
    /\ mu = "free"
    /\ calls < MaxCalls
    /\ IF id \notin DOMAIN shards
       THEN Called("Load", id, "", ErrNotExist, "")
       ELSE Called("Load", id, "", Nil, ShardLoad(shards[id]))
    /\ UNCHANGED <<closing, shards, insts, mu, leaderShard, leaders, ctxDone,
                   stopperCloses, campPc, closePc, closeRet>>

\* smContainer.Load(id)
Load(id) ==
    /\ UNCHANGED <<svars, xvars>>
    /\ mu = "free"
    /\ calls < MaxCalls
    /\ IF closing
       THEN Called("Load", id, "", ErrClosing, "")
       ELSE IF id \notin DOMAIN shards
       THEN Called("Load", id, "", ErrNotExist, "")
       ELSE Called("Load", id, "", Nil, ShardLoad(shards[id]))
    /\ UNCHANGED <<closing, shards, insts, mu, leaderShard, leaders, ctxDone,
                   stopperCloses, campPc, closePc, closeRet>>

\* variant of CloseEnter: the closing guard is left out
CloseEnterNoGuard(k) ==
    /\ UNCHANGED <<svars, xvars>>
    /\ closePc[k] = "idle"
    /\ mu = "free"
    /\ closing' = TRUE
    /\ mu' = k
    /\ closePc' = [closePc EXCEPT ![k] = "shards"]
    /\ UNCHANGED closeRet
    /\ UNCHANGED <<shards, insts, leaderShard, leaders, ctxDone, stopperCloses,
                   campPc, last, calls>>

\* smContainer.Close, lock and the closing guard
CloseEnter(k) ==
    /\ UNCHANGED <<svars, xvars>>
    /\ closePc[k] = "idle"
    /\ mu = "free"
    /\ IF closing
       THEN /\ closeRet' = [closeRet EXCEPT ![k] = ErrClosing]
            /\ closePc' = [closePc EXCEPT ![k] = "done"]
            /\ UNCHANGED <<closing, mu>>
       ELSE /\ closing' = TRUE
            /\ mu' = k
            /\ closePc' = [closePc EXCEPT ![k] = "shards"]
            /\ UNCHANGED closeRet
    /\ UNCHANGED <<shards, insts, leaderShard, leaders, ctxDone, stopperCloses,
                   campPc, last, calls>>

\* variant of CloseShards: the loop over the map is left out
CloseShardsSkipped(k) ==
    /\ UNCHANGED <<svars, xvars>>
    /\ closePc[k] = "shards"
    /\ closePc' = [closePc EXCEPT ![k] = "leader"]
    /\ UNCHANGED <<closing, shards, insts, mu, leaderShard, leaders, ctxDone,
                   stopperCloses, campPc, closeRet, last, calls>>

\* smContainer.Close, the loop closing every shard of the map
CloseShards(k) ==
    /\ UNCHANGED <<svars, xvars>>
    /\ closePc[k] = "shards"
    /\ insts' = [i \in DOMAIN insts |->
                    IF i \in Range(shards)
                    THEN [insts[i] EXCEPT !.closes = @ + 1, !.byClose = @ + 1]
                    ELSE insts[i]]
    /\ closePc' = [closePc EXCEPT ![k] = "leader"]
    /\ UNCHANGED <<closing, shards, mu, leaderShard, leaders, ctxDone,
                   stopperCloses, campPc, closeRet, last, calls>>

\* smContainer.Close, leaderShard closed when the field is not nil
\* (the field is read without synchronisation with the campaign goroutine)
CloseLeader(k) ==
    /\ UNCHANGED <<svars, xvars>>
    /\ closePc[k] = "leader"
    /\ IF leaderShard # 0
       THEN leaders' = [leaders EXCEPT ![leaderShard] = @ + 1]
       ELSE UNCHANGED leaders
    /\ closePc' = [closePc EXCEPT ![k] = "stopper"]
    /\ UNCHANGED <<closing, shards, insts, mu, leaderShard, ctxDone,
                   stopperCloses, campPc, closeRet, last, calls>>

\* smContainer.Close, stopper.Close(): cancel the campaign context ...
CloseStopper(k) ==
    /\ UNCHANGED <<svars, xvars>>
    /\ closePc[k] = "stopper"
    /\ ctxDone' = TRUE
    /\ stopperCloses' = stopperCloses + 1
    /\ closePc' = [closePc EXCEPT ![k] = "wait"]
    /\ UNCHANGED <<closing, shards, insts, mu, leaderShard, leaders,
                   campPc, closeRet, last, calls>>

\* ... and wait for the campaign goroutine; then return nil and unlock
CloseReturn(k) ==
    /\ UNCHANGED <<svars, xvars>>
    /\ closePc[k] = "wait"
    /\ campPc = "exit"
    /\ closeRet' = [closeRet EXCEPT ![k] = Nil]
    /\ closePc' = [closePc EXCEPT ![k] = "done"]
    /\ mu' = "free"
    /\ UNCHANGED <<closing, shards, insts, leaderShard, leaders, ctxDone,
                   stopperCloses, campPc, last, calls>>

\* any step of caller k inside smContainer.Close after it took the lock
CloseStep(k) ==
    \/ CloseShards(k)
    \/ CloseLeader(k)
    \/ CloseStopper(k)
    \/ CloseReturn(k)

\* campaign: the non-blocking select on ctx.Done() at the top of the loop
CampTop ==
    /\ UNCHANGED <<svars, xvars>>
    /\ campPc = "top"
    /\ campPc' = IF ctxDone THEN "exit" ELSE "campaign"
    /\ UNCHANGED <<closing, shards, insts, mu, leaderShard, leaders, ctxDone,
                   stopperCloses, closePc, closeRet, last, calls>>

\* campaign: election.Campaign(ctx, ...) returns, elected or with an error;
\* it does not report an election won once ctx is cancelled
CampCampaign(won) ==
    /\ UNCHANGED <<svars, xvars>>
    /\ campPc = "campaign"
    /\ won => ~ctxDone
    /\ campPc' = IF won THEN "newShard" ELSE "sleep"
    /\ UNCHANGED <<closing, shards, insts, mu, leaderShard, leaders, ctxDone,
                   stopperCloses, closePc, closeRet, last, calls>>

\* variant of CampSleep: after the sleep the loop goes on with Campaign, past the
\* check of ctx.Done()
CampSleepSkipsCheck ==
    /\ UNCHANGED <<svars, xvars>>
    /\ campPc = "sleep"
    /\ campPc' = "campaign"
    /\ UNCHANGED <<closing, shards, insts, mu, leaderShard, leaders, ctxDone,
                   stopperCloses, closePc, closeRet, last, calls>>

\* campaign: time.Sleep(defaultSleepTimeout); goto loop
CampSleep ==
    /\ UNCHANGED <<svars, xvars>>
    /\ campPc = "sleep"
    /\ campPc' = "top"
    /\ UNCHANGED <<closing, shards, insts, mu, leaderShard, leaders, ctxDone,
                   stopperCloses, closePc, closeRet, last, calls>>

\* variant of CampNewShard: a failed newSMShard ends the goroutine
CampNewShardReturnsOnError(ok) ==
    /\ UNCHANGED <<svars, xvars>>
    /\ campPc = "newShard"
    /\ IF ok
       THEN /\ leaders' = Append(leaders, 0)
            /\ leaderShard' = Len(leaders) + 1
            /\ campPc' = "leading"
       ELSE /\ leaderShard' = 0
            /\ campPc' = "exit"
            /\ UNCHANGED leaders
    /\ UNCHANGED <<closing, shards, insts, mu, ctxDone, stopperCloses,
                   closePc, closeRet, last, calls>>

\* campaign: c.leaderShard, err = newSMShard(c, &spec)
CampNewShard(ok) ==
    /\ UNCHANGED <<svars, xvars>>
    /\ campPc = "newShard"
    /\ IF ok
       THEN /\ leaders' = Append(leaders, 0)
            /\ leaderShard' = Len(leaders) + 1
            /\ campPc' = "leading"
       ELSE /\ leaderShard' = 0
            /\ campPc' = "top"
            /\ UNCHANGED leaders
    /\ UNCHANGED <<closing, shards, insts, mu, ctxDone, stopperCloses,
                   closePc, closeRet, last, calls>>

\* campaign: block on ctx.Done(), then c.leaderShard = nil and return
CampLeading ==
    /\ UNCHANGED <<svars, xvars>>
    /\ campPc = "leading"
    /\ ctxDone
    /\ leaderShard' = 0
    /\ campPc' = "exit"
    /\ UNCHANGED <<closing, shards, insts, mu, leaders, ctxDone, stopperCloses,
                   closePc, closeRet, last, calls>>

\* any step of the campaign goroutine
CampStep ==
    \/ CampTop
    \/ \E won \in BOOLEAN : CampCampaign(won)
    \/ CampSleep
    \/ \E ok \in BOOLEAN : CampNewShard(ok)
    \/ CampLeading

NextContainer ==
    \/ \E id \in ShardIds, t \in Tasks, ok \in BOOLEAN : Add(id, t, ok)
    \/ \E id \in ShardIds : Drop(id)
    \/ \E id \in ShardIds : Load(id)
    \/ \E k \in Closers : CloseEnter(k)
    \/ \E k \in Closers : CloseShards(k)
    \/ \E k \in Closers : CloseLeader(k)
    \/ \E k \in Closers : CloseStopper(k)
    \/ \E k \in Closers : CloseReturn(k)
    \/ CampTop
    \/ \E won \in BOOLEAN : CampCampaign(won)
    \/ CampSleep
    \/ \E ok \in BOOLEAN : CampNewShard(ok)
    \/ CampLeading

\* ================================================================ Server

\* values a ServerOption can set; "" / <<>> / "nil" are the zero values
Options ==
    [id : {"", "c1"}, service : {"", "svc"}, endpoints : {<<>>, <<"e1">>},
     addr : {"", ":8080"}, lg : {"nil", "lg"}, etcdPrefix : {"", "/sm"}]

FullOptions ==
    [id |-> "c1", service |-> "svc", endpoints |-> <<"e1">>,
     addr |-> ":8080", lg |-> "lg", etcdPrefix |-> "/sm"]

\* the checks NewServer makes on the options, in the order it makes them
ValidateOptions(o) ==
    IF o.id = "" THEN "id err"
    ELSE IF o.service = "" THEN "service err"
    ELSE IF o.addr = "" THEN "addr err"
    ELSE IF Len(o.endpoints) = 0 THEN "endpoints err"
    ELSE IF o.lg = "nil" THEN "logger err"
    ELSE "ok"

Runs == 1 .. MaxRuns

\* srv := Server{opts: &ops, donec: make(chan struct{})}, nothing run yet
InitServer ==
    /\ opts \in Options
    /\ etcdPrefix = "unset"
    /\ srvPc = "new"
    /\ srvRes = "none"
    /\ runs = 0
    /\ runPc = "idle"
    /\ runBy = "new"
    /\ conts = [r \in Runs |-> [made |-> FALSE, closes |-> 0]]
    /\ smcs = [r \in Runs |-> [made |-> FALSE, closing |-> FALSE, closeCalls |-> 0]]
    /\ sss = [r \in Runs |-> [made |-> FALSE, closes |-> 0, done |-> FALSE]]
    /\ smContainerF = 0
    /\ shardServerF = 0
    /\ donec = "open"
    /\ panicked = FALSE
    /\ supPc = "none"
    /\ supWatch = 0
    /\ sclosePc = [k \in SrvClosers |-> "idle"]

\* apputil.Container.Close() on the container of run r
ContClose(c, r) == [c EXCEPT ![r].closes = @ + 1]

\* smContainer.Close() as the Server sees it: the first call sets closing and
\* tears the container down, a later call returns ErrClosing
SmcClose(s, r) == [s EXCEPT ![r].closing = TRUE, ![r].closeCalls = @ + 1]

\* ShardServer.Close(): thread safe, and it makes ShardServer.Done() ready
SsClose(s, r) == [s EXCEPT ![r].closes = @ + 1, ![r].done = TRUE]

\* run() returns err (a string) or "nil" to whoever called it:
\* NewServer returns the error, or starts the supervisor goroutine and returns the Server;
\* the supervisor's retry loop breaks on nil (the goroutine ends) and loops on an error
RunReturn(err) ==
    /\ runPc' = "idle"
    /\ IF runBy = "new"
       THEN /\ srvPc' = "returned"
            /\ srvRes' = IF err = Nil THEN "ok" ELSE err
            /\ supPc' = IF err = Nil THEN "select" ELSE supPc
            /\ supWatch' = IF err = Nil THEN shardServerF' ELSE supWatch
       ELSE /\ supPc' = IF err = Nil THEN "exit" ELSE "retry"
            /\ UNCHANGED <<srvPc, srvRes, supWatch>>

\* NewServer: apply the options, validate them, InitEtcdPrefix, build the Server, call run()
NewServer ==
    /\ UNCHANGED <<cvars, xvars>>
    /\ ~panicked
    /\ srvPc = "new"
    /\ IF ValidateOptions(opts) # "ok"
       THEN /\ srvRes' = ValidateOptions(opts)
            /\ srvPc' = "returned"
            /\ UNCHANGED <<etcdPrefix, runs, runPc>>
       ELSE /\ etcdPrefix' = opts.etcdPrefix
            /\ srvPc' = "run"
            /\ runs' = runs + 1
            /\ runPc' = "container"
            /\ UNCHANGED srvRes
    /\ UNCHANGED <<opts, runBy, conts, smcs, sss, smContainerF, shardServerF,
                   donec, panicked, supPc, supWatch, sclosePc>>

\* run(): apputil.NewContainer(...)
RunNewContainer(ok) ==
    /\ UNCHANGED <<cvars, xvars>>
    /\ ~panicked
    /\ runPc = "container"
    /\ IF ok
       THEN /\ conts' = [conts EXCEPT ![runs].made = TRUE]
            /\ runPc' = "smContainer"
            /\ UNCHANGED <<srvPc, srvRes, supPc, supWatch>>
       ELSE /\ RunReturn("run err")
            /\ UNCHANGED conts
    /\ UNCHANGED <<opts, etcdPrefix, runs, runBy, smcs, sss, smContainerF,
                   shardServerF, donec, panicked, sclosePc>>

\* run(): newSMContainer(lg, container); on error container.Close(); else s.smContainer = smContainer
RunNewSMContainer(ok) ==
    /\ UNCHANGED <<cvars, xvars>>
    /\ ~panicked
    /\ runPc = "smContainer"
    /\ IF ok
       THEN /\ smcs' = [smcs EXCEPT ![runs].made = TRUE]
            /\ smContainerF' = runs
            /\ runPc' = "shardServer"
            /\ UNCHANGED <<conts, srvPc, srvRes, supPc, supWatch>>
       ELSE /\ conts' = ContClose(conts, runs)
            /\ RunReturn("run err")
            /\ UNCHANGED <<smcs, smContainerF>>
    /\ UNCHANGED <<opts, etcdPrefix, runs, runBy, sss, shardServerF, donec,
                   panicked, sclosePc>>

\* run(): apputil.NewShardServer(...); on error container.Close() first;
\* else s.shardServer = ss and return nil
RunNewShardServer(ok) ==
    /\ UNCHANGED <<cvars, xvars>>
    /\ ~panicked
    /\ runPc = "shardServer"
    /\ IF ok
       THEN /\ sss' = [sss EXCEPT ![runs].made = TRUE]
            /\ shardServerF' = runs
            /\ RunReturn(Nil)
            /\ UNCHANGED conts
       ELSE /\ conts' = ContClose(conts, runs)
            /\ runPc' = "closeSmContainer"
            /\ UNCHANGED <<sss, shardServerF, srvPc, srvRes, supPc, supWatch>>
    /\ UNCHANGED <<opts, etcdPrefix, runs, runBy, smcs, smContainerF, donec,
                   panicked, sclosePc>>

\* run(): after the failed NewShardServer and container.Close(): smContainer.Close(),
\* then return the error
RunCloseSMContainer ==
    /\ UNCHANGED <<cvars, xvars>>
    /\ ~panicked
    /\ runPc = "closeSmContainer"
    /\ smcs' = SmcClose(smcs, runs)
    /\ RunReturn("new shard server failed")
    /\ UNCHANGED <<opts, etcdPrefix, runs, runBy, conts, sss, smContainerF,
                   shardServerF, donec, panicked, sclosePc>>

\* the session behind a running ShardServer fails: its Done() channel becomes ready
ShardServerDone(r) ==
    /\ UNCHANGED <<cvars, xvars>>
    /\ ~panicked
    /\ sss[r].made
    /\ ~sss[r].done
    /\ sss' = [sss EXCEPT ![r].done = TRUE]
    /\ UNCHANGED <<opts, etcdPrefix, srvPc, srvRes, runs, runPc, runBy, conts, smcs,
                   smContainerF, shardServerF, donec, panicked, supPc, supWatch, sclosePc>>

\* supervisor: select takes case <-srv.donec and the goroutine returns
SupSelectActive ==
    /\ UNCHANGED <<cvars, xvars>>
    /\ ~panicked
    /\ supPc = "select"
    /\ donec = "closed"
    /\ supPc' = "exit"
    /\ UNCHANGED <<opts, etcdPrefix, srvPc, srvRes, runs, runPc, runBy, conts, smcs, sss,
                   smContainerF, shardServerF, donec, panicked, supWatch, sclosePc>>

\* variant of SupSelectPassive: the passive branch also closes donec
SupSelectPassiveClosesDonec ==
    /\ UNCHANGED <<cvars, xvars>>
    /\ ~panicked
    /\ supPc = "select"
    /\ sss[supWatch].done
    /\ supPc' = "close"
    /\ donec' = "closed"
    /\ UNCHANGED <<opts, etcdPrefix, srvPc, srvRes, runs, runPc, runBy, conts, smcs, sss,
                   smContainerF, shardServerF, panicked, supWatch, sclosePc>>

\* supervisor: select takes case <-srv.shardServer.Done()
SupSelectPassive ==
    /\ UNCHANGED <<cvars, xvars>>
    /\ ~panicked
    /\ supPc = "select"
    /\ sss[supWatch].done
    /\ supPc' = "close"
    /\ UNCHANGED <<opts, etcdPrefix, srvPc, srvRes, runs, runPc, runBy, conts, smcs, sss,
                   smContainerF, shardServerF, donec, panicked, supWatch, sclosePc>>

\* supervisor: srv.close(), that is s.smContainer.Close()
SupClose ==
    /\ UNCHANGED <<cvars, xvars>>
    /\ ~panicked
    /\ supPc = "close"
    /\ smcs' = SmcClose(smcs, smContainerF)
    /\ supPc' = "retry"
    /\ UNCHANGED <<opts, etcdPrefix, srvPc, srvRes, runs, runPc, runBy, conts, sss,
                   smContainerF, shardServerF, donec, panicked, supWatch, sclosePc>>

\* supervisor: top of the retry loop: return when donec is closed, else call run()
SupRetry ==
    /\ UNCHANGED <<cvars, xvars>>
    /\ ~panicked
    /\ supPc = "retry"
    /\ IF donec = "closed"
       THEN /\ supPc' = "exit"
            /\ UNCHANGED <<runs, runPc, runBy>>
       ELSE /\ runs < MaxRuns
            /\ runs' = runs + 1
            /\ runPc' = "container"
            /\ runBy' = "sup"
            /\ supPc' = "run"
    /\ UNCHANGED <<opts, etcdPrefix, srvPc, srvRes, conts, smcs, sss,
                   smContainerF, shardServerF, donec, panicked, supWatch, sclosePc>>

\* Server.Close: s.shardServer.Close()
SrvCloseShardServer(k) ==
    /\ UNCHANGED <<cvars, xvars>>
    /\ ~panicked
    /\ srvRes = "ok"
    /\ sclosePc[k] = "idle"
    /\ sss' = SsClose(sss, shardServerF)
    /\ sclosePc' = [sclosePc EXCEPT ![k] = "donec"]
    /\ UNCHANGED <<opts, etcdPrefix, srvPc, srvRes, runs, runPc, runBy, conts, smcs,
                   smContainerF, shardServerF, donec, panicked, supPc, supWatch>>

\* Server.Close: close(s.donec); closing a closed channel panics
SrvCloseDonec(k) ==
    /\ UNCHANGED <<cvars, xvars>>
    /\ ~panicked
    /\ sclosePc[k] = "donec"
    /\ IF donec = "closed"
       THEN /\ panicked' = TRUE
            /\ UNCHANGED <<donec, sclosePc>>
       ELSE /\ donec' = "closed"
            /\ sclosePc' = [sclosePc EXCEPT ![k] = "done"]
            /\ UNCHANGED panicked
    /\ UNCHANGED <<opts, etcdPrefix, srvPc, srvRes, runs, runPc, runBy, conts, smcs, sss,
                   smContainerF, shardServerF, supPc, supWatch>>

NextServer ==
    \/ NewServer
    \/ \E ok \in BOOLEAN : RunNewContainer(ok)
    \/ \E ok \in BOOLEAN : RunNewSMContainer(ok)
    \/ \E ok \in BOOLEAN : RunNewShardServer(ok)
    \/ RunCloseSMContainer
    \/ \E r \in Runs : ShardServerDone(r)
    \/ SupSelectActive
    \/ SupSelectPassive
    \/ SupClose
    \/ SupRetry
    \/ \E k \in SrvClosers : SrvCloseShardServer(k)
    \/ \E k \in SrvClosers : SrvCloseDonec(k)

\* ------------------------------------------------- election between replicas
\* Two smContainers, each with its own Session, run campaign() on the same
\* leader key.  election.Campaign puts a key bound to the Session's lease under
\* the prefix and returns nil once no older key is left; the key goes away when
\* the lease ends or when Campaign is abandoned on a cancelled context.

InitElection ==
    /\ eSess = [r \in Replicas |-> TRUE]
    /\ eQueue = <<>>
    /\ ePc = [r \in Replicas |-> "top"]
    /\ eCtx = [r \in Replicas |-> FALSE]
    /\ eShard = [r \in Replicas |-> "none"]
    /\ eField = [r \in Replicas |-> FALSE]
    /\ eRounds = [r \in Replicas |-> 0]
    /\ eClosePc = [r \in Replicas |-> "idle"]

RECURSIVE RemoveKey(_, _)
RemoveKey(q, r) ==
    IF q = <<>> THEN <<>>
    ELSE IF Head(q) = r THEN RemoveKey(Tail(q), r)
    ELSE <<Head(q)>> \o RemoveKey(Tail(q), r)

HasKey(q, r) == \E i \in DOMAIN q : q[i] = r

\* campaign: select { case <-ctx.Done(): return; default: }
ECampTop(r) ==
    /\ UNCHANGED <<cvars, svars, lvars, scvars>>
    /\ ePc[r] = "top"
    /\ ePc' = [ePc EXCEPT ![r] = IF eCtx[r] THEN "exit" ELSE "campaign"]
    /\ UNCHANGED <<eSess, eQueue, eCtx, eShard, eField, eRounds, eClosePc>>

CampaignCallWinsAtOnce(r) ==
    /\ UNCHANGED <<cvars, svars, lvars, scvars>>
    /\ ePc[r] = "campaign"
    /\ eRounds[r] < MaxCampaigns
    /\ eRounds' = [eRounds EXCEPT ![r] = @ + 1]
    /\ ePc' = [ePc EXCEPT ![r] = "newShard"]
    /\ UNCHANGED <<eSess, eQueue, eCtx, eShard, eField, eClosePc>>

\* election.Campaign(ctx, ...) is called: with a cancelled context or a dead
\* lease the put fails and Campaign returns the error; else the key is created
\* (kept if this Session already owns one) and the call waits
ECampaignCall(r) ==
    /\ UNCHANGED <<cvars, svars, lvars, scvars>>
    /\ ePc[r] = "campaign"
    /\ eRounds[r] < MaxCampaigns
    /\ eRounds' = [eRounds EXCEPT ![r] = @ + 1]
    /\ IF eCtx[r] \/ ~eSess[r]
       THEN /\ ePc' = [ePc EXCEPT ![r] = "sleep"]
            /\ UNCHANGED eQueue
       ELSE /\ ePc' = [ePc EXCEPT ![r] = "waiting"]
            /\ eQueue' = IF HasKey(eQueue, r) THEN eQueue ELSE Append(eQueue, r)
    /\ UNCHANGED <<eSess, eCtx, eShard, eField, eClosePc>>

\* election.Campaign returns: an error after the context was cancelled (the key
\* is deleted) or the lease ended, nil when this replica's key is the oldest
ECampaignReturn(r) ==
    /\ UNCHANGED <<cvars, svars, lvars, scvars>>
    /\ ePc[r] = "waiting"
    /\ IF eCtx[r]
       THEN /\ eQueue' = RemoveKey(eQueue, r)
            /\ ePc' = [ePc EXCEPT ![r] = "sleep"]
       ELSE IF ~eSess[r]
       THEN /\ ePc' = [ePc EXCEPT ![r] = "sleep"]
            /\ UNCHANGED eQueue
       ELSE /\ eQueue # <<>>
            /\ Head(eQueue) = r
            /\ ePc' = [ePc EXCEPT ![r] = "newShard"]
            /\ UNCHANGED eQueue
    /\ UNCHANGED <<eSess, eCtx, eShard, eField, eRounds, eClosePc>>

\* campaign: time.Sleep(defaultSleepTimeout); goto loop
ECampSleep(r) ==
    /\ UNCHANGED <<cvars, svars, lvars, scvars>>
    /\ ePc[r] = "sleep"
    /\ ePc' = [ePc EXCEPT ![r] = "top"]
    /\ UNCHANGED <<eSess, eQueue, eCtx, eShard, eField, eRounds, eClosePc>>

\* campaign: c.leaderShard, err = newSMShard(c, &spec); on error goto loop
ECampNewShard(r, ok) ==
    /\ UNCHANGED <<cvars, svars, lvars, scvars>>
    /\ ePc[r] = "newShard"
    /\ IF ok
       THEN /\ eShard' = [eShard EXCEPT ![r] = "open"]
            /\ eField' = [eField EXCEPT ![r] = TRUE]
            /\ ePc' = [ePc EXCEPT ![r] = "leading"]
       ELSE /\ eField' = [eField EXCEPT ![r] = FALSE]
            /\ ePc' = [ePc EXCEPT ![r] = "top"]
            /\ UNCHANGED eShard
    /\ UNCHANGED <<eSess, eQueue, eCtx, eRounds, eClosePc>>

\* campaign: select { case <-ctx.Done(): c.leaderShard = nil; return }
ECampLeading(r) ==
    /\ UNCHANGED <<cvars, svars, lvars, scvars>>
    /\ ePc[r] = "leading"
    /\ eCtx[r]
    /\ eField' = [eField EXCEPT ![r] = FALSE]
    /\ ePc' = [ePc EXCEPT ![r] = "exit"]
    /\ UNCHANGED <<eSess, eQueue, eCtx, eShard, eRounds, eClosePc>>

\* the lease of the replica's Session ends: its key leaves the prefix
ESessionEnd(r) ==
    /\ UNCHANGED <<cvars, svars, lvars, scvars>>
    /\ eSess[r]
    /\ eSess' = [eSess EXCEPT ![r] = FALSE]
    /\ eQueue' = RemoveKey(eQueue, r)
    /\ UNCHANGED <<ePc, eCtx, eShard, eField, eRounds, eClosePc>>

\* smContainer.Close: if c.leaderShard != nil { c.leaderShard.Close() }
ECloseLeader(r) ==
    /\ UNCHANGED <<cvars, svars, lvars, scvars>>
    /\ eClosePc[r] = "idle"
    /\ eClosePc' = [eClosePc EXCEPT ![r] = "stopper"]
    /\ eShard' = [eShard EXCEPT ![r] = IF eField[r] THEN "closed" ELSE @]
    /\ UNCHANGED <<eSess, eQueue, ePc, eCtx, eField, eRounds>>

\* smContainer.Close: c.stopper.Close() cancels the campaign context
ECloseStopper(r) ==
    /\ UNCHANGED <<cvars, svars, lvars, scvars>>
    /\ eClosePc[r] = "stopper"
    /\ eClosePc' = [eClosePc EXCEPT ![r] = "done"]
    /\ eCtx' = [eCtx EXCEPT ![r] = TRUE]
    /\ UNCHANGED <<eSess, eQueue, ePc, eShard, eField, eRounds>>

NextElection ==
    \/ \E r \in Replicas : ECampTop(r)
    \/ \E r \in Replicas : ECampaignCall(r)
    \/ \E r \in Replicas : ECampaignReturn(r)
    \/ \E r \in Replicas : ECampSleep(r)
    \/ \E r \in Replicas, ok \in BOOLEAN : ECampNewShard(r, ok)
    \/ \E r \in Replicas : ECampLeading(r)
    \/ \E r \in Replicas : ESessionEnd(r)
    \/ \E r \in Replicas : ECloseLeader(r)
    \/ \E r \in Replicas : ECloseStopper(r)


\* ------------------------------------------- serverContainer.campaignLeader
\* every content the shard node of the service can have
Stores == UNION {[D -> SpecValues] : D \in SUBSET SpecIds}

NoLog == [dist |-> "none", op |-> "none", mt |-> FALSE]

NoDist == [called |-> FALSE, err |-> "", order |-> <<>>]

InitLeader ==
    /\ lKv \in Stores
    /\ lPc = "top"
    /\ lCtx = FALSE
    /\ lEq = <<>>
    /\ lOp = FALSE
    /\ lMt = 0
    /\ lIter = 0
    /\ lLog = NoLog
    /\ lLast = NoDist

IdleLeader == InitLeader /\ lKv = <<>>

\* json.Unmarshal([]byte(value), &ss): a document without containerId leaves
\* the zero value "", a value that is not JSON is an error
Unmarshal(value) ==
    CASE value = "{}" -> [err |-> Nil, ContainerId |-> ""]
      [] value = "{\"containerId\":\"\"}" -> [err |-> Nil, ContainerId |-> ""]
      [] value = "{\"containerId\":\"c1\"}" -> [err |-> Nil, ContainerId |-> "c1"]
      [] value = "{\"containerId\":\"c2\"}" -> [err |-> Nil, ContainerId |-> "c2"]
      [] OTHER -> [err |-> ErrWrapped, ContainerId |-> ""]

\* the orders in which `range curShardIdAndValue` can visit the map
RangeOrders(kv) ==
    {o \in [1 .. Cardinality(DOMAIN kv) -> DOMAIN kv] :
        \A i, j \in DOMAIN o : i # j => o[i] # o[j]}

RECURSIVE CollectAllMoveActions(_, _, _)
CollectAllMoveActions(order, kv, acc) ==
    IF order = <<>> THEN [err |-> Nil, actions |-> acc]
    ELSE LET shardId == Head(order)
             ss == Unmarshal(kv[shardId])
             ma == [Service |-> Service, ShardId |-> shardId,
                    AddEndpoint |-> ss.ContainerId, AllowDrop |-> TRUE]
         IN  IF ss.err # Nil
             THEN [err |-> ErrWrapped, actions |-> <<>>]
             ELSE CollectAllMoveActions(Tail(order), kv, Append(acc, ma))

\* leaderStartDistribution: the loop over the map; a value that does not decode
\* ends the function with the error, a ShardSpec with a ContainerId appends a
\* moveAction
RECURSIVE CollectMoveActions(_, _, _)
CollectMoveActions(order, kv, acc) ==
    IF order = <<>> THEN [err |-> Nil, actions |-> acc]
    ELSE LET shardId == Head(order)
             ss == Unmarshal(kv[shardId])
             ma == [Service |-> Service, ShardId |-> shardId,
                    AddEndpoint |-> ss.ContainerId, AllowDrop |-> TRUE]
         IN  IF ss.err # Nil
             THEN [err |-> ErrWrapped, actions |-> <<>>]
             ELSE CollectMoveActions(Tail(order), kv,
                      IF ss.ContainerId # "" THEN Append(acc, ma) ELSE acc)

\* leaderStartDistribution: GetKVs, the loop, then one push of the whole list
\* unless it is empty; yields the returned error and the queue afterwards
leaderStartDistribution(getOk, order, kv, eq) ==
    IF ~getOk THEN [err |-> ErrWrapped, eq |-> eq]
    ELSE LET c == CollectMoveActions(order, kv, <<>>)
         IN  IF c.err # Nil THEN [err |-> c.err, eq |-> eq]
             ELSE IF Len(c.actions) = 0 THEN [err |-> Nil, eq |-> eq]
             ELSE [err |-> Nil, eq |-> Append(eq, [Value |-> c.actions])]

\* campaignLeader: select { case <-ctx.Done(): return; default: }
LTop ==
    /\ UNCHANGED <<cvars, svars, evars, scvars>>
    /\ lPc = "top"
    /\ lPc' = IF lCtx THEN "exit" ELSE "campaign"
    /\ lLog' = NoLog
    /\ UNCHANGED <<lKv, lCtx, lEq, lOp, lMt, lIter, lLast>>

\* campaignLeader: election.Campaign; on error sleep and goto loop
LCampaign(won) ==
    /\ UNCHANGED <<cvars, svars, evars, scvars>>
    /\ lPc = "campaign"
    /\ lIter < MaxIters
    /\ won => ~lCtx
    /\ lIter' = lIter + 1
    /\ lPc' = IF won THEN "wait" ELSE "sleep"
    /\ UNCHANGED <<lKv, lCtx, lEq, lOp, lMt, lLog, lLast>>

\* campaignLeader: time.Sleep(5 * time.Second) after the win
LWait ==
    /\ UNCHANGED <<cvars, svars, evars, scvars>>
    /\ lPc = "wait"
    /\ lPc' = "dist"
    /\ UNCHANGED <<lKv, lCtx, lEq, lOp, lMt, lIter, lLog, lLast>>

LDistIgnoresError(getOk) ==
    /\ UNCHANGED <<cvars, svars, evars, scvars>>
    /\ lPc = "dist"
    /\ \E order \in RangeOrders(lKv) :
       LET res == leaderStartDistribution(getOk, order, lKv, lEq)
       IN  /\ lEq' = res.eq
           /\ lLast' = [called |-> TRUE, err |-> res.err, order |-> order]
           /\ lLog' = [lLog EXCEPT !.dist = IF res.err = Nil THEN "ok" ELSE "err"]
           /\ lPc' = "newOp"
    /\ UNCHANGED <<lKv, lCtx, lOp, lMt, lIter>>

\* campaignLeader: c.leaderStartDistribution(ctx); on error sleep and goto loop
LDist(getOk) ==
    /\ UNCHANGED <<cvars, svars, evars, scvars>>
    /\ lPc = "dist"
    /\ \E order \in RangeOrders(lKv) :
       LET res == leaderStartDistribution(getOk, order, lKv, lEq)
       IN  /\ lEq' = res.eq
           /\ lLast' = [called |-> TRUE, err |-> res.err, order |-> order]
           /\ lLog' = [lLog EXCEPT !.dist = IF res.err = Nil THEN "ok" ELSE "err"]
           /\ lPc' = IF res.err = Nil THEN "newOp" ELSE "sleep"
    /\ UNCHANGED <<lKv, lCtx, lOp, lMt, lIter>>

\* campaignLeader: c.op, err = newOperator(c, c.service); on error sleep and goto loop
LNewOperator(ok) ==
    /\ UNCHANGED <<cvars, svars, evars, scvars>>
    /\ lPc = "newOp"
    /\ lOp' = ok
    /\ lLog' = [lLog EXCEPT !.op = IF ok THEN "ok" ELSE "err"]
    /\ lPc' = IF ok THEN "startMt" ELSE "sleep"
    /\ UNCHANGED <<lKv, lCtx, lEq, lMt, lIter, lLast>>

\* campaignLeader: go c.mtWorker.Start()
LStartMtWorker ==
    /\ UNCHANGED <<cvars, svars, evars, scvars>>
    /\ lPc = "startMt"
    /\ lMt' = lMt + 1
    /\ lLog' = [lLog EXCEPT !.mt = TRUE]
    /\ lPc' = "leading"
    /\ UNCHANGED <<lKv, lCtx, lEq, lOp, lIter, lLast>>

\* campaignLeader: select { case <-ctx.Done(): return }
LLeading ==
    /\ UNCHANGED <<cvars, svars, evars, scvars>>
    /\ lPc = "leading"
    /\ lCtx
    /\ lPc' = "exit"
    /\ UNCHANGED <<lKv, lCtx, lEq, lOp, lMt, lIter, lLog, lLast>>

\* campaignLeader: time.Sleep(defaultSleepTimeout); goto loop
LSleep ==
    /\ UNCHANGED <<cvars, svars, evars, scvars>>
    /\ lPc = "sleep"
    /\ lPc' = "top"
    /\ UNCHANGED <<lKv, lCtx, lEq, lOp, lMt, lIter, lLog, lLast>>

\* serverContainer.Close: c.stopper.Close() cancels the context of campaignLeader
LCancel ==
    /\ UNCHANGED <<cvars, svars, evars, scvars>>
    /\ ~lCtx
    /\ lCtx' = TRUE
    /\ UNCHANGED <<lKv, lPc, lEq, lOp, lMt, lIter, lLog, lLast>>

NextLeader ==
    \/ LTop
    \/ \E won \in BOOLEAN : LCampaign(won)
    \/ LWait
    \/ \E getOk \in BOOLEAN : LDist(getOk)
    \/ \E ok \in BOOLEAN : LNewOperator(ok)
    \/ LStartMtWorker
    \/ LLeading
    \/ LSleep
    \/ LCancel


\* --------------------------------- serverContainer: Add / Drop / Load / Close
NoScCall == [op |-> "none", id |-> "", res |-> "", hit |-> FALSE]

\* a serverContainer before any call: newServerContainer leaves shards nil; a
\* container whose map was made holds no shard yet
InitServerContainer ==
    /\ scMade \in BOOLEAN
    /\ scShards = <<>>
    /\ scInsts = <<>>
    /\ scStopped = FALSE
    /\ scPanicked = FALSE
    /\ scLast = NoScCall
    /\ scCalls = 0

IdleServerContainer == InitServerContainer /\ scMade = TRUE

\* hit: the call found the container not stopped and id in the map
ScCalled(op, id, res, hit) ==
    /\ scLast' = [op |-> op, id |-> id, res |-> res, hit |-> hit]
    /\ scCalls' = scCalls + 1

\* serverContainer.Add(ctx, id, spec); ok: whether startShard succeeds.
\* c.shards[id] = shard on a nil map panics
ScAdd(id, ok) ==
    /\ UNCHANGED <<cvars, svars, evars, lvars>>
    /\ ~scPanicked
    /\ scCalls < MaxCalls
    /\ IF scStopped
       THEN /\ ScCalled("Add", id, Nil, FALSE)
            /\ UNCHANGED <<scShards, scInsts, scPanicked>>
       ELSE IF id \in DOMAIN scShards
       THEN /\ ScCalled("Add", id, Nil, TRUE)
            /\ UNCHANGED <<scShards, scInsts, scPanicked>>
       ELSE IF ~ok
       THEN /\ ScCalled("Add", id, ErrWrapped, FALSE)
            /\ UNCHANGED <<scShards, scInsts, scPanicked>>
       ELSE /\ Len(scInsts) < MaxInst
            /\ scInsts' = Append(scInsts, [id |-> id, closes |-> 0])
            /\ IF scMade
               THEN /\ scShards' = [x \in DOMAIN scShards \cup {id} |->
                                       IF x = id THEN Len(scInsts) + 1 ELSE scShards[x]]
                    /\ ScCalled("Add", id, Nil, FALSE)
                    /\ UNCHANGED scPanicked
               ELSE /\ scPanicked' = TRUE
                    /\ UNCHANGED <<scShards, scLast, scCalls>>
    /\ UNCHANGED <<scMade, scStopped>>

\* serverContainer.Drop(ctx, id): sd.Close(); the map keeps the entry
ScDrop(id) ==
    /\ UNCHANGED <<cvars, svars, evars, lvars>>
    /\ ~scPanicked
    /\ scCalls < MaxCalls
    /\ IF scStopped
       THEN /\ ScCalled("Drop", id, Nil, FALSE)
            /\ UNCHANGED scInsts
       ELSE IF id \notin DOMAIN scShards
       THEN /\ ScCalled("Drop", id, errNotExist, FALSE)
            /\ UNCHANGED scInsts
       ELSE /\ scInsts' = [scInsts EXCEPT ![scShards[id]].closes = @ + 1]
            /\ ScCalled("Drop", id, Nil, TRUE)
    /\ UNCHANGED <<scMade, scShards, scStopped, scPanicked>>

\* serverContainer.Load(ctx, id)
ScLoad(id) ==
    /\ UNCHANGED <<cvars, svars, evars, lvars>>
    /\ ~scPanicked
    /\ scCalls < MaxCalls
    /\ IF scStopped
       THEN ScCalled("Load", id, Nil, FALSE)
       ELSE IF id \notin DOMAIN scShards
       THEN ScCalled("Load", id, errNotExist, FALSE)
       ELSE ScCalled("Load", id, Nil, TRUE)
    /\ UNCHANGED <<scMade, scShards, scInsts, scStopped, scPanicked>>

\* serverContainer.Close(): stopped = true, then every shard of the map is closed
ScClose ==
    /\ UNCHANGED <<cvars, svars, evars, lvars>>
    /\ ~scPanicked
    /\ ~scStopped
    /\ scStopped' = TRUE
    /\ scInsts' = [i \in DOMAIN scInsts |->
                      IF i \in Range(scShards)
                      THEN [scInsts[i] EXCEPT !.closes = @ + 1]
                      ELSE scInsts[i]]
    /\ UNCHANGED <<scMade, scShards, scPanicked, scLast, scCalls>>

NextServerContainer ==
    \/ \E id \in ShardIds, ok \in BOOLEAN : ScAdd(id, ok)
    \/ \E id \in ShardIds : ScDrop(id)
    \/ \E id \in ShardIds : ScLoad(id)
    \/ ScClose


Init == InitContainer /\ InitServer /\ opts = FullOptions /\ InitElection /\ IdleLeader /\ IdleServerContainer

Next == NextContainer

Spec == Init /\ [][Next]_vars

\* one Server built from complete options
InitSrv == InitContainer /\ InitServer /\ opts = FullOptions /\ InitElection /\ IdleLeader /\ IdleServerContainer

SpecServer == InitSrv /\ [][NextServer]_vars

\* NewServer called with every combination of present and missing options
InitNewServer == InitContainer /\ InitServer /\ InitElection /\ IdleLeader /\ IdleServerContainer

SpecNewServer == InitNewServer /\ [][NextServer]_vars

\* two replicas of the smContainer campaigning on one leader key
SpecElection == Init /\ [][NextElection]_vars

\* one serverContainer running campaignLeader over every content of the shard node
InitLdr ==
    InitContainer /\ InitServer /\ opts = FullOptions /\ InitElection /\ InitLeader
        /\ IdleServerContainer

SpecLeader == InitLdr /\ [][NextLeader]_vars

\* one serverContainer under Add, Drop, Load and Close
InitSc ==
    InitContainer /\ InitServer /\ opts = FullOptions /\ InitElection /\ IdleLeader
        /\ InitServerContainer

SpecServerContainer == InitSc /\ [][NextServerContainer]_vars

\* ================================================================ claims

\* a step that completes a call of op on a container that was not closing
CallStep(op) == calls' = calls + 1 /\ last'.op = op /\ ~closing

\* C1: on a container that is not closing, Add(id, spec) with the task the stored
\* shard already has returns ErrExist and changes neither the map nor any shard
\* instance (none closed, none created).
C1_AddSameTaskIsExist ==
    [][(CallStep("Add") /\ last'.id \in DOMAIN shards
            /\ insts[shards[last'.id]].task = last'.task)
        => (last'.res = ErrExist /\ shards' = shards /\ insts' = insts)]_vars

C1_Witness ==
    /\ last.op = "Add"
    /\ last.res = ErrExist
    /\ last.id \in DOMAIN shards
    /\ insts[shards[last.id]].task = last.task
    /\ insts[shards[last.id]].closes = 0

\* C2: on a container that is not closing, Drop(id) of a present id returns nil,
\* closes that shard once (no other shard) and removes id from the map, and a Drop(id)
\* that follows it immediately returns ErrNotExist and closes nothing; Drop(id) of an
\* absent id returns ErrNotExist and leaves map and shards unchanged.
C2_DropRemovesOnce ==
    [][/\ CallStep("Drop") =>
            IF last'.id \in DOMAIN shards
            THEN /\ last'.res = Nil
                 /\ DOMAIN shards' = DOMAIN shards \ {last'.id}
                 /\ \A x \in DOMAIN shards' : shards'[x] = shards[x]
                 /\ DOMAIN insts' = DOMAIN insts
                 /\ \A i \in DOMAIN insts :
                       /\ insts'[i].closes =
                             insts[i].closes + (IF i = shards[last'.id] THEN 1 ELSE 0)
                       /\ insts'[i].task = insts[i].task
            ELSE /\ last'.res = ErrNotExist
                 /\ shards' = shards
                 /\ insts' = insts
       /\ (CallStep("Drop") /\ last.op = "Drop" /\ last.res = Nil /\ last'.id = last.id)
            => (last'.res = ErrNotExist /\ shards' = shards /\ insts' = insts)
      ]_vars

C2_Witness ==
    /\ last.op = "Drop"
    /\ last.res = ErrNotExist
    /\ last.id \notin DOMAIN shards
    /\ ~closing
    /\ \E i \in DOMAIN insts : insts[i].id = last.id /\ insts[i].closes = 1

\* C3: once closing is true, every Add, Drop and Load returns ErrClosing and leaves
\* the map and every shard instance as they were (none created, none closed).
C3_ClosingRejectsCalls ==
    [][(calls' = calls + 1 /\ closing)
        => (last'.res = ErrClosing /\ shards' = shards /\ insts' = insts)]_vars

C3_Witness ==
    /\ closing
    /\ last.res = ErrClosing
    /\ last.op = "Load"
    /\ last.id \in DOMAIN shards

\* C4: on a container that is not closing, Add(id, spec) for an id stored with a
\* different task closes the old instance once in that call, and when NewShard succeeds
\* it returns nil and the map holds for id a fresh, open instance with the new task,
\* the old instance being no longer in the map.
C4_AddTaskChangedReplaces ==
    [][(CallStep("Add") /\ last'.id \in DOMAIN shards
            /\ insts[shards[last'.id]].task # last'.task)
        => /\ insts'[shards[last'.id]].closes = insts[shards[last'.id]].closes + 1
           /\ last'.res \in {Nil, ErrWrapped}
           /\ last'.res = Nil =>
                 /\ Len(insts') = Len(insts) + 1
                 /\ shards'[last'.id] = Len(insts')
                 /\ insts'[Len(insts')].task = last'.task
                 /\ insts'[Len(insts')].id = last'.id
                 /\ insts'[Len(insts')].closes = 0
                 /\ shards[last'.id] \notin Range(shards')
       ]_vars

C4_Witness ==
    /\ last.op = "Add"
    /\ last.res = Nil
    /\ \E i \in DOMAIN insts :
          /\ insts[i].id = last.id
          /\ insts[i].task # last.task
          /\ insts[i].closes = 1
          /\ i \notin Range(shards)
    /\ insts[shards[last.id]].task = last.task

C5_CloseTwiceIsSafe ==
    /\ ~panicked
    /\ (\A k \in SrvClosers : sclosePc[k] # "idle")
          => (donec = "closed" \/ \E k \in SrvClosers : sclosePc[k] = "donec")

\* C7: after Server.Close() the Server's smContainer gets closed, whichever branch
\* the supervisor's select took: once Close has returned and the supervisor goroutine
\* has ended, closing is set on the smContainer.
C7_CloseClosesSmContainer ==
    ((\E k \in SrvClosers : sclosePc[k] = "done") /\ supPc = "exit" /\ ~panicked)
        => smcs[smContainerF].closing

\* C8: every passive exit is supervised until active close: when the current
\* ShardServer's Done() has fired and Close() was never called, the supervisor goroutine
\* is still there to close the smContainer and re-run, or has closed it already.
C8_SupervisedUntilActiveClose ==
    (/\ srvRes = "ok"
     /\ sss[shardServerF].done
     /\ \A k \in SrvClosers : sclosePc[k] = "idle")
        => (supPc # "exit" \/ smcs[smContainerF].closing)

\* a passive exit has been handled to its end: the supervisor closed the smContainer,
\* re-ran run() with success and returned, and Close() was never called
PassiveExitHandled ==
    /\ supPc = "exit"
    /\ runs >= 2
    /\ \A k \in SrvClosers : sclosePc[k] = "idle"

MissingOption(o) ==
    \/ o.id = ""
    \/ o.service = ""
    \/ Len(o.endpoints) = 0
    \/ o.addr = ""
    \/ o.etcdPrefix = ""
    \/ o.lg = "nil"

\* C10: with any of the six options missing NewServer returns a configuration error
\* without calling run() or starting the supervisor; it calls run() only with all six.
C10_AllSixRequired ==
    (srvPc # "new" /\ MissingOption(opts))
        => /\ srvRes \in {"id err", "service err", "addr err", "endpoints err", "logger err"}
           /\ runs = 0
           /\ supPc = "none"

\* C12: on a container that is not closing, Load(id) returns the load of shards[id]
\* and no error for a present id, ErrNotExist for an absent one, and in both cases
\* leaves the map, the closing flag and every shard instance as they were.
C12_LoadReadsOnly ==
    [][CallStep("Load") =>
        /\ IF last'.id \in DOMAIN shards
           THEN last'.res = Nil /\ last'.load = ShardLoad(shards[last'.id])
           ELSE last'.res = ErrNotExist /\ last'.load = ""
        /\ shards' = shards
        /\ closing' = closing
        /\ insts' = insts
        /\ leaders' = leaders]_vars

C12_Witness ==
    /\ ~closing
    /\ last.op = "Load"
    /\ last.res = Nil
    /\ Cardinality(DOMAIN shards) = 2
    /\ last.load = ShardLoad(shards[last.id])
    /\ insts[shards[last.id]].closes = 0

\* every shard of the map has been closed by smContainer.Close
MapClosedByClose == \A id \in DOMAIN shards : insts[shards[id]].byClose >= 1

C14_NoLeaderShardLeftOpen ==
    ((\E k \in Closers : closeRet[k] = Nil) /\ campPc = "exit")
        => \A l \in DOMAIN leaders : leaders[l] >= 1

\* number of steps the campaign goroutine needs at most to return once its context
\* is cancelled
CampRank(pc) ==
    CASE pc = "exit" -> 0
      [] pc = "top" -> 1
      [] pc = "leading" -> 1
      [] pc = "sleep" -> 2
      [] pc = "newShard" -> 2
      [] pc = "campaign" -> 3

\* C18: the campaign goroutine returns only when its context is cancelled; a failed
\* Campaign or newSMShard sends it back to the top of the loop; once the context is
\* cancelled it can always step and every step brings it closer to returning, and
\* after it has seen the cancellation it returns without creating a leaderShard.
C18_CampaignEndsOnlyOnCancel ==
    /\ [][/\ (campPc' = "exit" /\ campPc # "exit") => ctxDone
          /\ (campPc = "campaign" /\ campPc' # campPc) => campPc' \in {"sleep", "newShard"}
          /\ (campPc = "sleep" /\ campPc' # campPc) => campPc' = "top"
          /\ (campPc = "newShard" /\ campPc' # campPc)
                => \/ campPc' = "top" /\ leaders' = leaders
                   \/ campPc' = "leading" /\ Len(leaders') = Len(leaders) + 1
          /\ (ctxDone /\ campPc' # campPc) => CampRank(campPc') < CampRank(campPc)
          /\ (ctxDone /\ campPc \in {"top", "leading"} /\ campPc' # campPc)
                => (campPc' = "exit" /\ Len(leaders') = Len(leaders))
          /\ campPc = "exit" => (campPc' = "exit" /\ Len(leaders') = Len(leaders))
         ]_vars
    /\ []((ctxDone /\ campPc # "exit") => ENABLED CampStep)

C18_Witness ==
    /\ campPc = "exit"
    /\ ctxDone
    /\ Len(leaders) = 1
    /\ leaderShard = 0

\* C15: when Server.Close() overlaps the passive-exit path, both end in a closed
\* Server: once Close has returned and the supervisor goroutine has ended, every
\* shardServer and every smContainer a run() created has been stopped.
C15_RaceEndsClosed ==
    (/\ smcs[1].closing
     /\ sss[1].closes >= 1
     /\ \E k \in SrvClosers : sclosePc[k] = "done"
     /\ supPc = "exit"
     /\ ~panicked)
        => \A r \in Runs : /\ sss[r].made => sss[r].done
                           /\ smcs[r].made => smcs[r].closing

\* C16: in every teardown path the smContainer is closed before the Container it
\* borrows: a closed Container never has an smContainer that is still open.
C16_SmContainerClosedFirst ==
    \A r \in Runs : (smcs[r].made /\ conts[r].closes >= 1) => smcs[r].closing

\* a replica that has returned from Campaign with nil and is creating or holding
\* its leaderShard
IsLeader(r) == ePc[r] \in {"newShard", "leading"} \/ eShard[r] = "open"

\* C11: of two replicas with live sessions at most one has returned from
\* Campaign and holds an open leaderShard; the other gets nil from Campaign only
\* when every replica that became leader (created its leaderShard) before it has
\* lost its session, and until then it stays where it is, blocked in Campaign.
C11_OneLeaderAmongLive ==
    /\ [](\A r1, r2 \in Replicas :
            (r1 # r2 /\ eSess[r1] /\ eSess[r2]) => ~(IsLeader(r1) /\ IsLeader(r2)))
    /\ [][\A r \in Replicas :
            (ePc[r] = "waiting" /\ ePc'[r] = "newShard")
                => \A r2 \in Replicas \ {r} : eShard[r2] # "none" => ~eSess[r2]]_vars
    /\ [][\A r \in Replicas :
            (/\ ePc[r] = "waiting" /\ eSess[r] /\ ~eCtx[r]
             /\ \E r2 \in Replicas \ {r} : eShard[r2] # "none" /\ eSess[r2])
                => ePc'[r] = "waiting"]_vars

C11_Witness ==
    \E r1, r2 \in Replicas :
        /\ r1 # r2
        /\ eShard[r1] = "open" /\ ~eSess[r1]
        /\ eSess[r2] /\ ePc[r2] = "leading" /\ eShard[r2] = "open"

\* C17: a replica blocked in the Leader state whose session has expired leaves
\* that state: the exit step of its campaign goroutine can be taken.
C17_LeaderLeavesOnSessionExpiry ==
    \A r \in Replicas : (ePc[r] = "leading" /\ ~eSess[r]) => ENABLED ECampLeading(r)

\* the stored ShardSpecs that carry a ContainerId
Assigned(kv) == {id \in DOMAIN kv : Unmarshal(kv[id]).ContainerId # ""}

Undecodable(kv) == {id \in DOMAIN kv : Unmarshal(kv[id]).err # Nil}

\* C19: leaderStartDistribution pushes one item holding exactly one action per
\* ShardSpec with a ContainerId (ShardId, AddEndpoint = ContainerId, AllowDrop)
\* and none for a ShardSpec without; with no such ShardSpec it pushes nothing and
\* returns nil; when reading or decoding fails it returns an error and pushes
\* nothing.
C19_DistributionPublishesAssigned ==
    [][(lPc = "dist" /\ lPc' # "dist") =>
         IF lLast'.err # Nil
         THEN lEq' = lEq
         ELSE /\ Undecodable(lKv) = {}
              /\ IF Assigned(lKv) = {}
                 THEN lEq' = lEq
                 ELSE /\ Len(lEq') = Len(lEq) + 1
                      /\ SubSeq(lEq', 1, Len(lEq)) = lEq
                      /\ LET list == lEq'[Len(lEq')].Value
                         IN  /\ Len(list) = Cardinality(Assigned(lKv))
                             /\ \A id \in Assigned(lKv) :
                                  \E i \in DOMAIN list :
                                      list[i] = [Service |-> Service, ShardId |-> id,
                                                 AddEndpoint |-> Unmarshal(lKv[id]).ContainerId,
                                                 AllowDrop |-> TRUE]]_vars
    /\ [][(lPc = "dist" /\ lPc' # "dist" /\ Undecodable(lKv) # {}) => lLast'.err # Nil]_vars

C19_Witness ==
    /\ lLast.called /\ lLast.err = Nil
    /\ Cardinality(DOMAIN lKv) = 3
    /\ Cardinality(Assigned(lKv)) = 2
    /\ Len(lEq) = 1 /\ Len(lEq[1].Value) = 2

\* C20: in every iteration of campaignLeader the operator is created only after
\* leaderStartDistribution returned nil, and the maintenance worker is started
\* only after both succeeded; after a failure of either the iteration starts no
\* maintenance worker and goes back to the top of the loop.
C20_DistributionBeforeOperatorAndWorker ==
    /\ [](lLog.op # "none" => lLog.dist = "ok")
    /\ [](lLog.mt => (lLog.dist = "ok" /\ lLog.op = "ok"))
    /\ []((lLog.dist = "err" \/ lLog.op = "err") => (~lLog.mt /\ lPc \in {"sleep", "top"}))
    /\ [][lMt' > lMt => (lPc = "startMt" /\ lLog.dist = "ok" /\ lLog.op = "ok")]_vars
    /\ [][(lPc = "campaign" /\ lPc' = "wait") => lLog = NoLog]_vars

C20_Witness ==
    /\ lIter = 2 /\ lMt = 1 /\ lLog.mt /\ lPc = "leading"
    /\ lLast.called /\ lLast.err = Nil

\* the shard instances that are open: created and never closed
OpenInsts == {i \in DOMAIN insts : insts[i].closes = 0}

\* C21: no I/O happens while smContainer.mu is held: a shard or the leaderShard
\* is closed, and the stopper is closed, only when no caller holds the mutex.
C21_NoIOUnderMu ==
    [][(\/ stopperCloses' # stopperCloses
        \/ leaders' # leaders
        \/ \E i \in DOMAIN insts : insts'[i].closes # insts[i].closes)
            => mu = "free"]_vars

\* C22: an Add whose NewShard fails returns the error and leaves the container as
\* it was: same map, and every shard that was open before the call still open.
C22_FailedAddChangesNothing ==
    [][(CallStep("Add") /\ last'.res = ErrWrapped)
        => (shards' = shards /\ insts' = insts)]_vars

\* C23: a shard id never has two open instances, and while the container is not
\* closing every entry of the map refers to an open instance.
C23_OneOpenInstancePerId ==
    /\ \A i, j \in OpenInsts : insts[i].id = insts[j].id => i = j
    /\ ~closing => \A id \in DOMAIN shards : shards[id] \in OpenInsts

\* C24: smContainer.Close terminates: a caller that holds the lock can always take
\* its next step; once it waits in stopper.Close() the context is cancelled, the
\* campaign goroutine can step until it has returned, every step that happens
\* then is one of that goroutine and brings it closer to returning, and when it
\* has returned Close can return; Close returns nil only with the goroutine gone.
C24_CloseTerminates ==
    /\ [](\A k \in Closers :
            closePc[k] \in {"shards", "leader", "stopper"} => ENABLED CloseStep(k))
    /\ [](\A k \in Closers :
            closePc[k] = "wait"
                => /\ ctxDone
                   /\ mu = k
                   /\ campPc # "exit" => ENABLED CampStep
                   /\ campPc = "exit" => ENABLED CloseReturn(k))
    /\ [][\A k \in Closers :
            (closePc[k] = "wait" /\ campPc # "exit")
                => /\ closePc'[k] = "wait"
                   /\ CampRank(campPc') < CampRank(campPc)
                   /\ calls' = calls]_vars
    /\ [](\A k \in Closers : closeRet[k] = Nil => (campPc = "exit" /\ mu # k))

C24_Witness ==
    /\ \E k \in Closers : closePc[k] = "done" /\ closeRet[k] = Nil
    /\ campPc = "exit"
    /\ mu = "free"
    /\ Len(leaders) = 1
    /\ calls >= 1
    /\ last.res = ErrClosing

\* a run() call that has returned an error: it is over and made no shardServer
RunFailed(r) == r <= runs /\ (r < runs \/ runPc = "idle") /\ ~sss[r].made

\* C25: when run() has returned an error, the Container and the smContainer it
\* created are closed, and neither Server.smContainer nor Server.shardServer
\* refers to a component that the failed call created.
C25_FailedRunLeavesNothing ==
    \A r \in Runs :
        RunFailed(r) => /\ conts[r].made => conts[r].closes >= 1
                        /\ smcs[r].made => smcs[r].closing
                        /\ smcs[r].made => smContainerF # r
                        /\ shardServerF # r

\* a step that completes a call of op on the serverContainer
ScStep(op) == scCalls' = scCalls + 1 /\ scLast'.op = op

\* C26: serverContainer.Drop(id) of a present id on a container that is not
\* stopped closes the shard and removes it from the map; a Drop(id) right after
\* it returns errNotExist, and an Add(id, spec) right after it starts a new
\* shard.
C26_DropRemovesFromMap ==
    [][/\ (ScStep("Drop") /\ scLast'.hit)
            => /\ scInsts'[scShards[scLast'.id]].closes
                    = scInsts[scShards[scLast'.id]].closes + 1
               /\ scLast'.res = Nil
               /\ scLast'.id \notin DOMAIN scShards'
       /\ (scLast.op = "Drop" /\ scLast.hit /\ ~scStopped
            /\ ScStep("Drop") /\ scLast'.id = scLast.id)
            => scLast'.res = errNotExist
       /\ (scLast.op = "Drop" /\ scLast.hit /\ ~scStopped
            /\ ScStep("Add") /\ scLast'.id = scLast.id /\ scLast'.res = Nil)
            => (Len(scInsts') = Len(scInsts) + 1
                /\ scShards'[scLast.id] = Len(scInsts'))
      ]_vars
====
